---- MODULE Spec2Model ----
(***************************************************************************)
(* Model of the cash-flow projection engine (src/app/engine.py) and of the *)
(* request handlers that drive it (src/app/main.py).                       *)
(*                                                                         *)
(* Numbers.  Python floats are modelled in fixed point: money in units of  *)
(* 1/1000 of the currency unit (one cent = Cent units), random factors in  *)
(* units of 1/One, every float division or product rounded to the nearest  *)
(* unit.  round(x, 2) rounds to the nearest multiple of Cent, ties to      *)
(* even, as Python does.                                                   *)
(*                                                                         *)
(* Optional values.  None is the empty sequence, a present value x is the  *)
(* one-element sequence <<x>>.                                             *)
(***************************************************************************)
EXTENDS Integers, Sequences, FiniteSets

\* ------------------------------------------------------------------ bounds
MaxSimulations == 3
MaxDays == 3
MaxCalls == 2

\* --------------------------------------------------------------- constants
\* money units in one cent, and in one unit of the currency
Cent == 10
Unit == 100 * Cent
\* the factor 1.0
One == 10000
RandMod == 8
default_window_days == 30
default_income_volatility == 1000
default_burn_volatility == 500
default_seed == 42

None == <<>>
Some(x) == <<x>>

\* ------------------------------------------------------------- arithmetic
\* nearest integer to a / b (b > 0), ties to the even neighbour
RoundDiv(a, b) ==
    LET q == a \div b
        r == a % b
    IN  IF 2 * r < b THEN q
        ELSE IF 2 * r > b THEN q + 1
        ELSE IF q % 2 = 0 THEN q ELSE q + 1

\* round(x, 2) of a money value
round2(x) == RoundDiv(x, Cent) * Cent

Min2(a, b) == IF a < b THEN a ELSE b
Max2(a, b) == IF a > b THEN a ELSE b

RECURSIVE SumSeq(_)
SumSeq(s) == IF s = <<>> THEN 0 ELSE Head(s) + SumSeq(Tail(s))

RECURSIVE MinSeq(_)
MinSeq(s) == IF Len(s) = 1 THEN s[1] ELSE Min2(s[1], MinSeq(Tail(s)))

RECURSIVE MaxSeq(_)
MaxSeq(s) == IF Len(s) = 1 THEN s[1] ELSE Max2(s[1], MaxSeq(Tail(s)))

RECURSIVE Insert(_, _)
Insert(x, s) ==
    IF s = <<>> THEN <<x>>
    ELSE IF x < Head(s) THEN <<x>> \o s
    ELSE <<Head(s)>> \o Insert(x, Tail(s))

\* mutant of sorted: the list is left in the order of the runs
sorted_not(s) == s

\* sorted(endings): ascending
RECURSIVE sorted(_)
sorted(s) == IF s = <<>> THEN <<>> ELSE Insert(Head(s), sorted(Tail(s)))

\* ------------------------------------------------------------------ dates
\* datetime.strptime(s, "%Y-%m-%d"), as the ordinal of the day within 2024;
\* single-digit months and days are accepted and parse to the same day
strptime(s) ==
    CASE s = "2024-01-01" -> 1
      [] s = "2024-01-05" -> 5
      [] s = "2024-1-5"   -> 5
      [] s = "2024-02-15" -> 46
      [] s = "2024-03-01" -> 61

\* ----------------------------------------------------------------- ledgers
Tx(d, a, t) == [date |-> d, amount |-> a, type |-> t]

\* the concrete scenario of the documentation: 1000 in, 200 out
LedgerHealthy ==
    << Tx("2024-01-01", 1000 * Unit, "income"),
       Tx("2024-01-05", 200 * Unit, "expense") >>
\* break-even at cent scale: balance 0, 0.03 in and 0.03 out per day
LedgerPenny ==
    << Tx("2024-01-01", 90 * Cent, "income"),
       Tx("2024-01-05", 90 * Cent, "expense") >>
\* break-even: balance 0, 10 in and 10 out per day
LedgerEven ==
    << Tx("2024-01-01", 300 * Unit, "income"),
       Tx("2024-01-05", 300 * Unit, "expense") >>
\* no income at all
LedgerDeficit ==
    << Tx("2024-01-05", 50 * Unit, "expense") >>
\* two income keys for one day, an unknown kind, an expense before the window
LedgerMixed ==
    << Tx("2024-01-05", 100 * Unit, "income"),
       Tx("2024-1-5", 50 * Unit, "income"),
       Tx("2024-02-15", 30 * Unit, "refund"),
       Tx("2024-03-01", 60 * Unit, "expense"),
       Tx("2024-01-01", 40 * Unit, "expense") >>

Ledgers == { <<>>, LedgerHealthy, LedgerPenny, LedgerEven, LedgerDeficit, LedgerMixed }

\* --------------------------------------------------------- pure functions
RECURSIVE SumKind(_, _)
SumKind(txs, kind) ==
    IF txs = <<>> THEN 0
    ELSE (IF Head(txs).type = kind THEN Head(txs).amount ELSE 0) + SumKind(Tail(txs), kind)

calculate_cash_flow(txs) ==
    LET total_income == SumKind(txs, "income")
        total_expense == SumKind(txs, "expense")
    IN  [ total_income |-> total_income,
          total_expense |-> total_expense,
          current_balance |-> total_income - total_expense ]

\* result [raised, value]: raised is TRUE for the ZeroDivisionError of line 50
estimate_burn_rate(txs, window_days) ==
    IF txs = <<>> THEN [raised |-> FALSE, value |-> 0]
    ELSE
      LET latest_date == MaxSeq([i \in 1..Len(txs) |-> strptime(txs[i].date)])
          window_start == latest_date - window_days
          InWindow == [i \in 1..Len(txs) |->
                         IF txs[i].type = "expense" /\ strptime(txs[i].date) >= window_start
                         THEN txs[i].amount ELSE 0]
          expense_total == SumSeq(InWindow)
      IN  IF window_days = 0 THEN [raised |-> TRUE, value |-> 0]
          ELSE [raised |-> FALSE,
                value |-> RoundDiv(expense_total, window_days * Cent) * Cent]

\* runway in hundredths of a day; inf is float("inf")
estimate_runway(current_balance, daily_burn) ==
    IF daily_burn = 0 THEN [inf |-> TRUE, days |-> 0]
    ELSE [inf |-> FALSE, days |-> RoundDiv(current_balance * 100, daily_burn)]

risk_level(runway) ==
    IF runway.inf THEN "No Risk"
    ELSE IF runway.days < 7 * 100 THEN "High Risk"
    ELSE IF runway.days < 21 * 100 THEN "Medium Risk"
    ELSE "Low Risk"


\* ------------------------------------------------- the random generator
\* The module-level generator of Python's random, one per process, is the
\* state variable rng.  Its state is a residue modulo RandMod.
\* random.seed(k): the state depends on k alone
seed_state(k) == k % RandMod
\* one step of the generator
rng_next(s) == (5 * s + 3) % RandMod
\* the value random.random() returns from state s, in 1/RandMod
random_value(s) == rng_next(s)
\* random.uniform(a, b) = a + (b - a) * random(), a and b in 1/One
uniform(a, b, u) == a + RoundDiv((b - a) * u, RandMod)

\* mutant of seed_rng: the generator is never seeded
seed_rng_never(rng0, seed) == rng0

\* the states the generator may be in when the process starts serving
InitialRng == {0, 5}

\* lines 137-138: the state of the generator after the seeding step
seed_rng(rng0, seed) == IF seed # None THEN seed_state(seed[1]) ELSE rng0

\* ----------------------------------------- project_cash_flow, its pieces
\* the set of keys of income_dates (lines 151-155)
income_date_keys(txs) == { txs[i].date : i \in { j \in 1..Len(txs) : txs[j].type = "income" } }

\* lines 143-162; raised is the ZeroDivisionError of estimate_burn_rate
pcf_setup(txs, window_days) ==
    LET cash_flow == calculate_cash_flow(txs)
        burn == estimate_burn_rate(txs, window_days)
        n == Cardinality(income_date_keys(txs))
        total == SumKind(txs, "income")
    IN  [ raised |-> burn.raised,
          projected_balance |-> cash_flow.current_balance,
          daily_burn |-> burn.value,
          avg_income_per_income_day |-> IF n > 0 THEN RoundDiv(total, n) ELSE 0,
          income_days |-> n ]

\* lines 170-172: the balance after the income of one day, u the value drawn
income_step(balance, avg, n, window_days, volatility, u) ==
    LET income_expected == RoundDiv(avg * n, window_days)
        factor == uniform(One - volatility, One + volatility, u)
    IN  balance + RoundDiv(income_expected * factor, One)

\* lines 175-176: the balance after the burn of one day, u the value drawn
burn_step(balance, daily_burn, volatility, u) ==
    LET factor == uniform(One - volatility, One + volatility, u)
    IN  balance - RoundDiv(daily_burn * factor, One)

\* line 178: the recorded projection point
projection_point(day, balance) == [day |-> day, projected_balance |-> round2(balance)]

\* mutants of cashout_update: the test "cashout_day is None" left out, and a
\* day counted from 0
cashout_update_last(cashout_day, projected_balance, day) ==
    IF projected_balance <= 0 THEN Some(day) ELSE cashout_day

cashout_update_zero_based(cashout_day, projected_balance, day) ==
    IF cashout_day = None /\ projected_balance <= 0 THEN Some(day - 1) ELSE cashout_day

\* lines 180-181
cashout_update(cashout_day, projected_balance, day) ==
    IF cashout_day = None /\ projected_balance <= 0 THEN Some(day) ELSE cashout_day

\* lines 167-181, one run of the loop from day to projection_days, executed
\* without any other user of the generator
RECURSIVE pcf_loop(_, _, _, _, _, _, _)
pcf_loop(args, st, day, balance, projection, cashout_day, rng0) ==
    IF day > args.projection_days
    THEN [raised |-> FALSE, projection |-> projection, cashout_day |-> cashout_day, rng |-> rng0]
    ELSE
      LET has_income == st.income_days > 0
          b1 == IF has_income
                THEN income_step(balance, st.avg_income_per_income_day, st.income_days,
                                 args.window_days, args.income_volatility, random_value(rng0))
                ELSE balance
          r1 == IF has_income THEN rng_next(rng0) ELSE rng0
          b2 == burn_step(b1, st.daily_burn, args.burn_volatility, random_value(r1))
          r2 == rng_next(r1)
      IN  pcf_loop(args, st, day + 1, b2, Append(projection, projection_point(day, b2)),
                   cashout_update(cashout_day, b2, day), r2)

\* lines 124-183: project_cash_flow(txs, **args) run alone from generator state rng0
project_cash_flow(txs, args, rng0) ==
    LET r0 == seed_rng(rng0, args.seed)
    IN  IF txs = <<>>
        THEN [raised |-> FALSE, projection |-> <<>>, cashout_day |-> None, rng |-> r0]
        ELSE LET st == pcf_setup(txs, args.window_days)
             IN  IF st.raised
                 THEN [raised |-> TRUE, projection |-> <<>>, cashout_day |-> None, rng |-> r0]
                 ELSE pcf_loop(args, st, 1, st.projected_balance, <<>>, None, r0)

\* ------------------------------------------------ run_monte_carlo_simulation
\* mutant of mc_loop_continues: one iteration too many
mc_loop_continues_once_more(i, simulations) == i <= simulations

\* line 201: for i in range(simulations)
mc_loop_continues(i, simulations) == i < simulations

\* line 203
sim_seed(seed, i) == IF seed = None THEN None ELSE Some(seed[1] + i)

\* lines 214-215
ending_balance(projection) ==
    IF projection # <<>> THEN projection[Len(projection)].projected_balance ELSE 0

\* lines 223-228
percentile_index(n, p) == Max2(0, Min2(n - 1, RoundDiv(p * (n - 1), 100)))

percentile(endings_sorted, p) ==
    LET n == Len(endings_sorted)
    IN  IF n = 0 THEN 0 ELSE endings_sorted[percentile_index(n, p) + 1]

\* lines 220-250; probability_cashout in 1/10000, avg_cashout_day in 1/100
summary(args, simulations, endings, cashouts) ==
    LET endings_sorted == sorted(endings)
        n == Len(endings_sorted)
        prob_cashout == IF simulations > 0
                        THEN RoundDiv(Len(cashouts) * 10000, simulations) ELSE 0
    IN  [ simulations |-> simulations,
          projection_days |-> args.projection_days,
          window_days |-> args.window_days,
          income_volatility |-> args.income_volatility,
          burn_volatility |-> args.burn_volatility,
          probability_cashout |-> prob_cashout,
          cashout_count |-> Len(cashouts),
          ending_balance_worst |-> IF n > 0 THEN round2(endings_sorted[1]) ELSE 0,
          ending_balance_median |-> round2(percentile(endings_sorted, 50)),
          ending_balance_best |-> IF n > 0 THEN round2(endings_sorted[n]) ELSE 0,
          ending_balance_p10 |-> round2(percentile(endings_sorted, 10)),
          ending_balance_p90 |-> round2(percentile(endings_sorted, 90)),
          avg_cashout_day |-> IF cashouts # <<>>
                              THEN Some(RoundDiv(SumSeq(cashouts) * 100, Len(cashouts)))
                              ELSE None,
          min_cashout_day |-> IF cashouts # <<>> THEN Some(MinSeq(cashouts)) ELSE None,
          max_cashout_day |-> IF cashouts # <<>> THEN Some(MaxSeq(cashouts)) ELSE None ]

\* -------------------------------------------------- apply_scenario_modifiers
KnownScenarios == {"base", "optimistic", "conservative"}
ScenarioNames == KnownScenarios \cup {"aggressive"}

\* the factor the loop body applies, in percent (lines 262-272)
scenario_factor(scenario, type) ==
    IF scenario = "optimistic" /\ type = "income" THEN 115
    ELSE IF scenario = "optimistic" /\ type = "expense" THEN 95
    ELSE IF scenario = "conservative" /\ type = "income" THEN 85
    ELSE IF scenario = "conservative" /\ type = "expense" THEN 110
    ELSE 100

\* The heap maps references to dict objects.
\* mutant of dict_copy: new_tx = tx, the same dict
dict_copy_alias(h, ref) == [heap |-> h, ref |-> ref]

\* tx.copy() (line 260): a new dict with the fields of tx; [heap, ref]
dict_copy(h, ref) ==
    LET new == Cardinality(DOMAIN h) + 1
    IN  [ heap |-> [x \in DOMAIN h \cup {new} |-> IF x = new THEN h[ref] ELSE h[x]],
          ref |-> new ]

\* new_tx["amount"] *= factor (lines 264-272)
scale_amount(h, ref, percent) ==
    IF percent = 100 THEN h
    ELSE [h EXCEPT ![ref].amount = RoundDiv(h[ref].amount * percent, 100)]

\* lines 257-278: the loop from position k; [heap, adjusted]
RECURSIVE apply_loop(_, _, _, _, _)
apply_loop(h, txs, k, adjusted_refs, scenario) ==
    IF k > Len(txs) THEN [heap |-> h, adjusted |-> adjusted_refs]
    ELSE LET tx == txs[k]
             c == dict_copy(h, tx)
             new_tx == c.ref
             h2 == scale_amount(c.heap, new_tx, scenario_factor(scenario, c.heap[tx].type))
         IN  apply_loop(h2, txs, k + 1, Append(adjusted_refs, new_tx), scenario)

apply_scenario_modifiers(h, txs, scenario) == apply_loop(h, txs, 1, <<>>, scenario)

\* the dicts a list of references denotes
Deref(h, refs) == [i \in 1..Len(refs) |-> h[refs[i]]]


\* ------------------------------------------------------------------ state
VARIABLES
    heap,          \* reference -> transaction dict
    transactions,  \* the request's transaction list (references)
    scenario,      \* the scenario name of the risk request, None before it
    adjusted,      \* the list apply_scenario_modifiers returned, None before
    cfg,           \* the parameters of run_monte_carlo_simulation
    rng,           \* the state of the module-level random generator
    run,           \* slot -> activation of project_cash_flow
    mc,            \* the activation of run_monte_carlo_simulation
    results,       \* what the calls of run_monte_carlo_simulation returned
    analysis       \* what the plain analysis returned, None before

vars == <<heap, transactions, scenario, adjusted, cfg, rng, run, mc, results, analysis>>

Slots == {1, 2}

Args(projection_days, window_days, income_volatility, burn_volatility, seed) ==
    [ projection_days |-> projection_days, window_days |-> window_days,
      income_volatility |-> income_volatility, burn_volatility |-> burn_volatility,
      seed |-> seed ]

NoSetup ==
    [ raised |-> FALSE, projected_balance |-> 0, daily_burn |-> 0,
      avg_income_per_income_day |-> 0, income_days |-> 0 ]

\* raw is a history field: the unrounded balance at the end of each day
IdleRun ==
    [ pc |-> "idle", transactions |-> <<>>, args |-> Args(0, 0, 0, 0, None),
      st |-> NoSetup, day |-> 0, projected_balance |-> 0,
      projection |-> <<>>, cashout_day |-> None, raw |-> <<>> ]

\* outcomes is a history field: the cashout_day of every run so far.  The
\* fields keep their last values after the return, until the next call.
IdleMC == [pc |-> "idle", i |-> 0, endings |-> <<>>, cashouts |-> <<>>, outcomes |-> <<>>]

HeapOf(ledger) == [ref \in 1..Len(ledger) |-> ledger[ref]]
RefsOf(ledger) == [k \in 1..Len(ledger) |-> k]

Init ==
    /\ \E ledger \in Ledgers :
         /\ heap = HeapOf(ledger)
         /\ transactions = RefsOf(ledger)
    /\ scenario = None
    /\ adjusted = None
    /\ \E simulations \in -1..MaxSimulations, projection_days \in 0..MaxDays,
          window_days \in {0, default_window_days}, seed \in {None, Some(default_seed)} :
         cfg = [ simulations |-> simulations,
                 args |-> Args(projection_days, window_days, default_income_volatility,
                               default_burn_volatility, seed) ]
    /\ rng \in InitialRng
    /\ run = [r \in Slots |-> IdleRun]
    /\ mc = IdleMC
    /\ results = <<>>
    /\ analysis = None

\* ---------------------------------------------------- project_cash_flow
\* the call: the activation starts with its arguments bound
Called(refs, args) == [IdleRun EXCEPT !.pc = "called", !.transactions = refs, !.args = args]

\* lines 137-138
PCF_Seed(r) ==
    /\ run[r].pc = "called"
    /\ rng' = seed_rng(rng, run[r].args.seed)
    /\ run' = [run EXCEPT ![r].pc = "seeded"]
    /\ UNCHANGED <<heap, transactions, scenario, adjusted, cfg, mc, results, analysis>>

\* mutant of PCF_Setup: the test "if not transactions" left out
PCF_Setup_no_guard(r) ==
    /\ run[r].pc = "seeded"
    /\ LET txs == Deref(heap, run[r].transactions)
           st == pcf_setup(txs, run[r].args.window_days)
       IN  run' = IF st.raised
                  THEN [run EXCEPT ![r].pc = "raised"]
                  ELSE [run EXCEPT ![r].pc = "loop", ![r].st = st, ![r].day = 1,
                                   ![r].projected_balance = st.projected_balance]
    /\ UNCHANGED <<heap, transactions, scenario, adjusted, cfg, rng, mc, results, analysis>>

\* lines 140-165
PCF_Setup(r) ==
    /\ run[r].pc = "seeded"
    /\ LET txs == Deref(heap, run[r].transactions)
           st == pcf_setup(txs, run[r].args.window_days)
       IN  run' = IF txs = <<>>
                  THEN [run EXCEPT ![r].pc = "returned"]
                  ELSE IF st.raised
                  THEN [run EXCEPT ![r].pc = "raised"]
                  ELSE [run EXCEPT ![r].pc = "loop", ![r].st = st, ![r].day = 1,
                                   ![r].projected_balance = st.projected_balance]
    /\ UNCHANGED <<heap, transactions, scenario, adjusted, cfg, rng, mc, results, analysis>>

\* lines 167-172: the loop test and the income of the day
PCF_Income(r) ==
    /\ run[r].pc = "loop"
    /\ run[r].day <= run[r].args.projection_days
    /\ run[r].st.income_days > 0
    /\ run' = [run EXCEPT ![r].pc = "burn",
                          ![r].projected_balance =
                              income_step(@, run[r].st.avg_income_per_income_day,
                                          run[r].st.income_days, run[r].args.window_days,
                                          run[r].args.income_volatility, random_value(rng))]
    /\ rng' = rng_next(rng)
    /\ UNCHANGED <<heap, transactions, scenario, adjusted, cfg, mc, results, analysis>>

\* mutant of PCF_Burn: the cashout test placed before the burn is subtracted
PCF_Burn_test_early(r) ==
    /\ \/ run[r].pc = "burn"
       \/ /\ run[r].pc = "loop"
          /\ run[r].day <= run[r].args.projection_days
          /\ run[r].st.income_days = 0
    /\ LET balance == burn_step(run[r].projected_balance, run[r].st.daily_burn,
                                run[r].args.burn_volatility, random_value(rng))
           day == run[r].day
       IN  run' = [run EXCEPT ![r].pc = "loop",
                              ![r].projected_balance = balance,
                              ![r].projection = Append(@, projection_point(day, balance)),
                              ![r].raw = Append(@, balance),
                              ![r].cashout_day =
                                  cashout_update(@, run[r].projected_balance, day),
                              ![r].day = day + 1]
    /\ rng' = rng_next(rng)
    /\ UNCHANGED <<heap, transactions, scenario, adjusted, cfg, mc, results, analysis>>

\* lines 175-181 (and the loop test when there is no income)
PCF_Burn(r) ==
    /\ \/ run[r].pc = "burn"
       \/ /\ run[r].pc = "loop"
          /\ run[r].day <= run[r].args.projection_days
          /\ run[r].st.income_days = 0
    /\ LET balance == burn_step(run[r].projected_balance, run[r].st.daily_burn,
                                run[r].args.burn_volatility, random_value(rng))
           day == run[r].day
       IN  run' = [run EXCEPT ![r].pc = "loop",
                              ![r].projected_balance = balance,
                              ![r].projection = Append(@, projection_point(day, balance)),
                              ![r].raw = Append(@, balance),
                              ![r].cashout_day = cashout_update(@, balance, day),
                              ![r].day = day + 1]
    /\ rng' = rng_next(rng)
    /\ UNCHANGED <<heap, transactions, scenario, adjusted, cfg, mc, results, analysis>>

\* line 183
PCF_Return(r) ==
    /\ run[r].pc = "loop"
    /\ run[r].day > run[r].args.projection_days
    /\ run' = [run EXCEPT ![r].pc = "returned"]
    /\ UNCHANGED <<heap, transactions, scenario, adjusted, cfg, rng, mc, results, analysis>>

PCF(r) == PCF_Seed(r) \/ PCF_Setup(r) \/ PCF_Income(r) \/ PCF_Burn(r) \/ PCF_Return(r)

\* ------------------------------------------------------------- handlers
\* main.py lines 43-57: the plain analysis
Analyze ==
    /\ analysis = None
    /\ LET txs == Deref(heap, transactions)
           cash_flow == calculate_cash_flow(txs)
           daily_burn == estimate_burn_rate(txs, default_window_days).value
           runway == estimate_runway(cash_flow.current_balance, daily_burn)
       IN  analysis' = Some([ cash_flow |-> cash_flow, daily_burn |-> daily_burn,
                              runway_days |-> runway, risk_level |-> risk_level(runway) ])
    /\ UNCHANGED <<heap, transactions, scenario, adjusted, cfg, rng, run, mc, results>>

\* main.py line 83: apply_scenario_modifiers(transactions, data.scenario)
ApplyScenario ==
    /\ analysis # None
    /\ adjusted = None
    /\ \E name \in ScenarioNames :
         LET out == apply_scenario_modifiers(heap, transactions, name)
         IN  /\ heap' = out.heap
             /\ adjusted' = Some(out.adjusted)
             /\ scenario' = Some(name)
    /\ UNCHANGED <<transactions, cfg, rng, run, mc, results, analysis>>

\* engine.py lines 198-199: run_monte_carlo_simulation is entered
MC_Call ==
    /\ adjusted # None
    /\ mc.pc = "idle"
    /\ Len(results) < MaxCalls
    /\ mc' = [IdleMC EXCEPT !.pc = "loop"]
    /\ UNCHANGED <<heap, transactions, scenario, adjusted, cfg, rng, run, results, analysis>>

\* lines 201-212: the loop test and the call of project_cash_flow
MC_Invoke ==
    /\ mc.pc = "loop"
    /\ mc_loop_continues(mc.i, cfg.simulations)
    /\ run' = [run EXCEPT ![1] = Called(adjusted[1],
                                        [cfg.args EXCEPT !.seed = sim_seed(cfg.args.seed, mc.i)])]
    /\ mc' = [mc EXCEPT !.pc = "waiting"]
    /\ UNCHANGED <<heap, transactions, scenario, adjusted, cfg, rng, results, analysis>>

\* lines 214-218
MC_Collect ==
    /\ mc.pc = "waiting"
    /\ run[1].pc = "returned"
    /\ mc' = [mc EXCEPT !.pc = "loop", !.i = @ + 1,
                        !.endings = Append(@, ending_balance(run[1].projection)),
                        !.cashouts = IF run[1].cashout_day # None
                                     THEN Append(@, run[1].cashout_day[1]) ELSE @,
                        !.outcomes = Append(@, run[1].cashout_day)]
    /\ run' = [run EXCEPT ![1] = IdleRun]
    /\ UNCHANGED <<heap, transactions, scenario, adjusted, cfg, rng, results, analysis>>

\* the exception of project_cash_flow leaves run_monte_carlo_simulation
MC_Raise ==
    /\ mc.pc = "waiting"
    /\ run[1].pc = "raised"
    /\ mc' = [mc EXCEPT !.pc = "idle"]
    /\ run' = [run EXCEPT ![1] = IdleRun]
    /\ results' = Append(results, [raised |-> TRUE, value |-> None])
    /\ UNCHANGED <<heap, transactions, scenario, adjusted, cfg, rng, analysis>>

\* lines 220-250
MC_Return ==
    /\ mc.pc = "loop"
    /\ ~mc_loop_continues(mc.i, cfg.simulations)
    /\ results' = Append(results,
                         [ raised |-> FALSE,
                           value |-> Some(summary(cfg.args, cfg.simulations,
                                                  mc.endings, mc.cashouts)) ])
    /\ mc' = [mc EXCEPT !.pc = "idle"]
    /\ UNCHANGED <<heap, transactions, scenario, adjusted, cfg, rng, run, analysis>>

\* any other user of the random module draws a value between two calls
OtherRandom ==
    /\ mc.pc = "idle"
    /\ results # <<>>
    /\ Len(results) < MaxCalls
    /\ rng' = rng_next(rng)
    /\ UNCHANGED <<heap, transactions, scenario, adjusted, cfg, run, mc, results, analysis>>

Next ==
    \/ Analyze
    \/ ApplyScenario
    \/ MC_Call
    \/ MC_Invoke
    \/ PCF(1)
    \/ MC_Collect
    \/ MC_Raise
    \/ MC_Return
    \/ OtherRandom

Spec == Init /\ [][Next]_vars

\* ------------------------------------------------- concurrent requests
\* The handlers of main.py are synchronous functions, which the server runs
\* on a pool of threads, so the engine is entered by several threads at a
\* time.  Each slot is a call of project_cash_flow made by one thread, as
\* run_monte_carlo_simulation makes it for its run i (engine.py lines
\* 203-212), with the seed base + i.  Threads are interleaved between the
\* calls of the random module; a call of random.seed or random.uniform is
\* one step.
InitConc ==
    /\ \E ledger \in Ledgers :
         /\ heap = HeapOf(ledger)
         /\ transactions = RefsOf(ledger)
    /\ scenario = None
    /\ adjusted = None
    /\ \E projection_days \in 1..MaxDays :
         cfg = [ simulations |-> MaxSimulations,
                 args |-> Args(projection_days, default_window_days,
                               default_income_volatility, default_burn_volatility,
                               Some(default_seed)) ]
    /\ rng \in InitialRng
    /\ run = [r \in Slots |-> IdleRun]
    /\ mc = IdleMC
    /\ results = <<>>
    /\ analysis = None

Conc_Call(r) ==
    /\ run[r].pc = "idle"
    /\ \E i \in 0..(cfg.simulations - 1) :
         run' = [run EXCEPT ![r] = Called(transactions,
                                          [cfg.args EXCEPT !.seed = sim_seed(cfg.args.seed, i)])]
    /\ UNCHANGED <<heap, transactions, scenario, adjusted, cfg, rng, mc, results, analysis>>

NextConc == \E r \in Slots : Conc_Call(r) \/ PCF(r)

SpecConc == InitConc /\ [][NextConc]_vars


\* ===================================================================== C1
\* the first position of a sequence of balances that is <= 0, None if none
FirstCrossing(balances) ==
    LET hit == { d \in 1..Len(balances) : balances[d] <= 0 }
    IN  IF hit = {} THEN None ELSE Some(CHOOSE d \in hit : \A e \in hit : d <= e)

Recorded(projection) == [d \in 1..Len(projection) |-> projection[d].projected_balance]

InRun(r) == run[r].pc \in {"loop", "burn", "returned"} /\ run[r].transactions # <<>>

\* C1 (as stated): when a run over non-empty transactions returns, cashout_day
\* is the first day whose recorded (rounded) projected_balance is <= 0, None
\* if there is no such day.
C1_FirstRecordedCrossing ==
    \A r \in Slots :
        (run[r].pc = "returned" /\ run[r].transactions # <<>>)
            => run[r].cashout_day = FirstCrossing(Recorded(run[r].projection))

\* C1 (amended): at every point of a run over non-empty transactions,
\* cashout_day is the first day so far at which the running balance, before
\* it is rounded for the record, is <= 0, and None if no day so far reached
\* that; so once set it never changes, whatever the balance does later, and
\* the returned value is the first such day in 1..projection_days.
C1_FirstCrossing ==
    \A r \in Slots :
        InRun(r) =>
            /\ run[r].cashout_day = FirstCrossing(run[r].raw)
            /\ Len(run[r].raw) = run[r].day - 1
            /\ run[r].pc = "returned" => Len(run[r].raw) = run[r].args.projection_days

\* a run that crossed on one day and recovered above 0 on a later day
C1_Witness ==
    \E r \in Slots :
        /\ run[r].pc = "returned"
        /\ run[r].cashout_day # None
        /\ \E d \in 1..Len(run[r].raw) :
               /\ d > run[r].cashout_day[1]
               /\ run[r].raw[d] > 0
               /\ run[r].projection[d].projected_balance > 0


\* ===================================================================== C2
Seeded == cfg.args.seed # None

\* C2: all calls of run_monte_carlo_simulation with the same transactions,
\* the same parameters and the same base seed (not None) return the same
\* result, whatever state the random generator was in before each call; and
\* run i of a seeded call is given the seed base_seed + i.
C2_SeededCallsAgree ==
    Seeded =>
        /\ \A j, k \in 1..Len(results) : results[j] = results[k]
        /\ mc.pc = "waiting" => run[1].args.seed = Some(cfg.args.seed[1] + mc.i)

\* two seeded calls have returned summaries in which the random draws showed
C2_Witness ==
    /\ Seeded
    /\ Len(results) >= 2
    /\ ~results[1].raised
    /\ results[1].value[1].ending_balance_worst < results[1].value[1].ending_balance_best
    /\ results[1].value[1].cashout_count \in 1..(cfg.simulations - 1)

\* ===================================================================== C4
\* the summaries returned so far
Summaries == { results[k].value[1] : k \in { j \in 1..Len(results) : ~results[j].raised } }

\* the summary and the locals of the call that returned last
LastReturned == mc.pc = "idle" /\ results # <<>> /\ ~results[Len(results)].raised
Last == results[Len(results)].value[1]

\* v is the element at 0-based position idx of the ascending order of xs
IsOrderStatistic(v, xs, idx) ==
    /\ Cardinality({ j \in 1..Len(xs) : xs[j] < v }) <= idx
    /\ idx < Cardinality({ j \in 1..Len(xs) : xs[j] <= v })

\* clamp(round((p / 100) * (n - 1)), 0, n - 1), round as Python rounds
NearestRank(p, n) ==
    LET k == RoundDiv(p * (n - 1), 100)
    IN  IF k < 0 THEN 0 ELSE IF k > n - 1 THEN n - 1 ELSE k

\* C4: in every summary worst <= p10 <= median <= p90 <= best, and each of
\* the five is the element of the ascending order of the ending balances at
\* the nearest-rank position of its percentile (0, 10, 50, 90, 100).
C4_PercentilesOrdered ==
    /\ \A s \in Summaries :
          /\ s.ending_balance_worst <= s.ending_balance_p10
          /\ s.ending_balance_p10 <= s.ending_balance_median
          /\ s.ending_balance_median <= s.ending_balance_p90
          /\ s.ending_balance_p90 <= s.ending_balance_best
    /\ (LastReturned /\ mc.endings # <<>>) =>
          LET n == Len(mc.endings)
          IN  /\ IsOrderStatistic(Last.ending_balance_worst, mc.endings, 0)
              /\ IsOrderStatistic(Last.ending_balance_p10, mc.endings, NearestRank(10, n))
              /\ IsOrderStatistic(Last.ending_balance_median, mc.endings, NearestRank(50, n))
              /\ IsOrderStatistic(Last.ending_balance_p90, mc.endings, NearestRank(90, n))
              /\ IsOrderStatistic(Last.ending_balance_best, mc.endings, n - 1)

\* a summary over at least three runs whose ending balances came out of order
C4_Witness ==
    /\ LastReturned
    /\ Len(mc.endings) >= 3
    /\ mc.endings[1] > mc.endings[2]
    /\ Last.ending_balance_worst < Last.ending_balance_median
    /\ Last.ending_balance_median < Last.ending_balance_best

\* ===================================================================== C5
ZeroSummary(s) ==
    /\ s.probability_cashout = 0
    /\ s.cashout_count = 0
    /\ s.ending_balance_worst = 0
    /\ s.ending_balance_p10 = 0
    /\ s.ending_balance_median = 0
    /\ s.ending_balance_p90 = 0
    /\ s.ending_balance_best = 0
    /\ s.avg_cashout_day = None
    /\ s.min_cashout_day = None
    /\ s.max_cashout_day = None

\* C5 (as stated): a call with simulations <= 0 is rejected with an error
\* and returns no summary.
C5_Rejected ==
    cfg.simulations <= 0 => \A k \in 1..Len(results) : results[k].raised

\* C5 (amended): a call with simulations <= 0 is not rejected: it makes no
\* run of project_cash_flow, raises nothing and returns a summary that
\* echoes simulations and has probability_cashout 0, cashout_count 0, the
\* five ending balances 0 and avg, min and max cashout day None.
C5_ZeroSummary ==
    cfg.simulations <= 0 =>
        /\ mc.pc \in {"idle", "loop"}
        /\ run[1].pc = "idle"
        /\ \A k \in 1..Len(results) :
              /\ ~results[k].raised
              /\ results[k].value[1].simulations = cfg.simulations
              /\ ZeroSummary(results[k].value[1])

\* a call with simulations <= 0 over transactions and a window that make
\* every run of project_cash_flow raise has returned
C5_Witness ==
    /\ cfg.simulations <= 0
    /\ cfg.args.window_days = 0
    /\ transactions # <<>>
    /\ results # <<>>

\* ===================================================================== C7
\* C7: with an empty transaction list nothing raises: calculate_cash_flow
\* returns zeros, estimate_burn_rate returns 0, project_cash_flow returns an
\* empty projection and no cashout day, and run_monte_carlo_simulation with
\* simulations >= 1 returns a summary with probability_cashout 0,
\* cashout_count 0, the five ending balances 0 and avg, min and max cashout
\* day None.
C7_EmptyInput ==
    transactions = <<>> =>
        /\ analysis # None =>
              /\ analysis[1].cash_flow.total_income = 0
              /\ analysis[1].cash_flow.total_expense = 0
              /\ analysis[1].cash_flow.current_balance = 0
              /\ analysis[1].daily_burn = 0
        /\ \A r \in Slots :
              /\ run[r].pc \in {"idle", "called", "seeded", "returned"}
              /\ run[r].pc = "returned" =>
                    run[r].projection = <<>> /\ run[r].cashout_day = None
        /\ cfg.simulations >= 1 =>
              \A k \in 1..Len(results) :
                  ~results[k].raised /\ ZeroSummary(results[k].value[1])

\* the analysis and a call with at least two runs have returned for an empty
\* list, with a window of 0 days
C7_Witness ==
    /\ transactions = <<>>
    /\ analysis # None
    /\ cfg.simulations >= 2
    /\ cfg.args.window_days = 0
    /\ cfg.args.projection_days >= 1
    /\ results # <<>>

\* ===================================================================== C8
Defined(outcomes) == { j \in 1..Len(outcomes) : outcomes[j] # None }

CashoutDaysAbsent(s) ==
    s.avg_cashout_day = None /\ s.min_cashout_day = None /\ s.max_cashout_day = None

\* avg in 1/100 of a day
CashoutDaysOrdered(s, projection_days) ==
    /\ s.avg_cashout_day # None /\ s.min_cashout_day # None /\ s.max_cashout_day # None
    /\ 1 <= s.min_cashout_day[1]
    /\ s.min_cashout_day[1] * 100 <= s.avg_cashout_day[1]
    /\ s.avg_cashout_day[1] <= s.max_cashout_day[1] * 100
    /\ s.max_cashout_day[1] <= projection_days

\* C8 (as stated): in every summary cashout_count is the number of runs with
\* a defined cashout_day, 0 <= cashout_count <= simulations,
\* probability_cashout = cashout_count / simulations, and the cashout days
\* are absent exactly when cashout_count = 0 and ordered within
\* 1..projection_days otherwise.
C8_AsStated ==
    /\ LastReturned => Last.cashout_count = Cardinality(Defined(mc.outcomes))
    /\ \A s \in Summaries :
          /\ 0 <= s.cashout_count
          /\ s.cashout_count <= s.simulations
          /\ s.probability_cashout * s.simulations = s.cashout_count * 10000
          /\ IF s.cashout_count = 0 THEN CashoutDaysAbsent(s)
             ELSE CashoutDaysOrdered(s, s.projection_days)

\* C8 (amended): in every summary with simulations >= 1, cashout_count is
\* the number of runs with a defined cashout_day, 0 <= cashout_count <=
\* simulations and probability_cashout is cashout_count / simulations
\* rounded to 4 decimals; in a summary with simulations <= 0, cashout_count
\* and probability_cashout are 0.  In every summary avg, min and max cashout
\* day are absent exactly when cashout_count = 0, and otherwise
\* 1 <= min <= avg <= max <= projection_days.
C8_CashoutStatistics ==
    /\ LastReturned => Last.cashout_count = Cardinality(Defined(mc.outcomes))
    /\ \A s \in Summaries :
          /\ IF s.simulations >= 1
             THEN /\ 0 <= s.cashout_count
                  /\ s.cashout_count <= s.simulations
                  /\ LET d == s.probability_cashout * s.simulations - s.cashout_count * 10000
                     IN  2 * d <= s.simulations /\ -2 * d <= s.simulations
             ELSE s.cashout_count = 0 /\ s.probability_cashout = 0
          /\ IF s.cashout_count = 0 THEN CashoutDaysAbsent(s)
             ELSE CashoutDaysOrdered(s, s.projection_days)

\* a summary over three runs of which one or two cashed out
C8_Witness ==
    /\ LastReturned
    /\ Last.simulations = 3
    /\ Last.cashout_count \in {1, 2}
    /\ Last.cashout_count = Cardinality(Defined(mc.outcomes))
    /\ Last.probability_cashout \in {3333, 6667}

\* ===================================================================== C9
Factor(name, type) ==
    CASE name = "optimistic" /\ type = "income" -> 115
      [] name = "optimistic" /\ type = "expense" -> 95
      [] name = "conservative" /\ type = "income" -> 85
      [] name = "conservative" /\ type = "expense" -> 110
      [] OTHER -> 100

\* what apply_scenario_modifiers returned, against its argument
C9_Output ==
    adjusted # None =>
        LET out == adjusted[1]
        IN  /\ Len(out) = Len(transactions)
            /\ \A k \in 1..Len(out) :
                  /\ out[k] \notin { transactions[j] : j \in 1..Len(transactions) }
                  /\ \A j \in 1..Len(out) : j # k => out[j] # out[k]
                  /\ heap[out[k]].date = heap[transactions[k]].date
                  /\ heap[out[k]].type = heap[transactions[k]].type
                  /\ scenario[1] \in KnownScenarios =>
                        heap[out[k]].amount =
                            RoundDiv(heap[transactions[k]].amount
                                        * Factor(scenario[1], heap[transactions[k]].type), 100)
                  /\ scenario[1] = "base" =>
                        heap[out[k]].amount = heap[transactions[k]].amount

\* C9: apply_scenario_modifiers returns a new list of new transactions, one
\* per input transaction and in the same order, each with the date and kind
\* of its input and the amount scaled by the factor of the scenario for that
\* kind (base: equal amounts); the input list and the input transactions
\* never change.
C9_ScenarioFrame ==
    /\ []C9_Output
    /\ [][ /\ transactions' = transactions
           /\ Deref(heap, transactions)' = Deref(heap, transactions) ]_vars

\* a non-base scenario applied to a list with incomes, expenses and a
\* transaction of another kind
C9_Witness ==
    /\ adjusted # None
    /\ scenario = Some("conservative")
    /\ \E i, j, k \in 1..Len(transactions) :
          /\ heap[transactions[i]].type = "income"
          /\ heap[adjusted[1][i]].amount < heap[transactions[i]].amount
          /\ heap[transactions[j]].type = "expense"
          /\ heap[adjusted[1][j]].amount > heap[transactions[j]].amount
          /\ heap[transactions[k]].type = "refund"

\* ==================================================================== C10
\* C10: a run over non-empty transactions with projection_days >= 1 whose
\* ending balance (the recorded balance of the last projection point) is
\* negative has a defined cashout_day; so in every summary
\* ending_balance_worst < 0 implies cashout_count >= 1, and cashout_count = 0
\* implies that the five reported ending balances are >= 0.
C10_NegativeEndingCashedOut ==
    /\ \A r \in Slots :
          (run[r].pc = "returned" /\ ending_balance(run[r].projection) < 0)
              => run[r].cashout_day # None
    /\ \A s \in Summaries :
          /\ s.ending_balance_worst < 0 => s.cashout_count >= 1
          /\ s.cashout_count = 0 =>
                /\ s.ending_balance_worst >= 0
                /\ s.ending_balance_p10 >= 0
                /\ s.ending_balance_median >= 0
                /\ s.ending_balance_p90 >= 0
                /\ s.ending_balance_best >= 0

\* a summary with a negative worst ending and a positive best ending
C10_Witness ==
    /\ LastReturned
    /\ Last.ending_balance_worst < 0
    /\ Last.ending_balance_best > 0
    /\ Last.cashout_count >= 1


\* ===================================================================== C3
\* the outcome of a run: what project_cash_flow returns
Outcome(projection, cashout_day) == [projection |-> projection, cashout_day |-> cashout_day]

\* the outcome of the same call executed alone; a seeded call does not
\* depend on the state the generator is in before it
Alone(r) ==
    LET out == project_cash_flow(Deref(heap, run[r].transactions), run[r].args, 0)
    IN  Outcome(out.projection, out.cashout_day)

\* C3: a seeded run of project_cash_flow whose steps are interleaved with
\* those of other runs returns the outcome it returns when executed alone.
C3_RunsIndependent ==
    \A r \in Slots :
        (run[r].pc = "returned" /\ run[r].args.seed # None)
            => Outcome(run[r].projection, run[r].cashout_day) = Alone(r)

\* ===================================================================== C6
\* C6: apply_scenario_modifiers with a scenario name other than base,
\* optimistic or conservative returns no transaction sequence.
C6_UnknownScenarioRejected ==
    (scenario # None /\ scenario[1] \notin KnownScenarios) => adjusted = None

====
